---- MODULE Spec2Model ----
(***************************************************************************)
(* Model of Text_sanitizer/text_sanitizer.py: the chunked sanitize/count   *)
(* pipeline (TextProcessor.process), its two chunk sources, the file sink  *)
(* and the pure character functions they are built from.                   *)
(*                                                                         *)
(* A text is a sequence of characters; a character is a string.  ASCII     *)
(* characters are themselves ("A", "\t"); the three sigma code points are   *)
(* written by their code point name.                                       *)
(***************************************************************************)
EXTENDS Integers, Sequences, FiniteSets, TLC

\* ------------------------------------------------------------------ bounds
MaxRep == 20        \* how often a generated file/table repeats its first item
MaxTail == 1        \* items a generated file/table holds after the repetition
MaxChunkSize == 2   \* largest chunk_size (bytes) given to the file reader
NumWorkers == 2     \* processes of multiprocessing.Pool()
MaxLen == 3         \* longest text of the chunk-invariance checks
MaxCuts == 2        \* cuts of a text into chunks in the chunk-invariance checks
MaxCount == 2       \* largest count in a Statistics of the merge checks

\* ------------------------------------------------------- program constants
ImapChunksize == 10 \* chunksize=10 of both pool.imap calls
TabWidth == 4       \* '\t' -> '____'

\* -------------------------------------------------------------- characters
CapitalSigma == "U+03A3"
SmallSigma == "U+03C3"
FinalSigma == "U+03C2"

\* Characters a generated input may hold.
Alphabet == {"A", "\t", CapitalSigma}
\* Characters of the chunk-invariance checks: also a lowercase letter and a
\* case-ignorable character.
PureAlphabet == {"A", "a", "\t", "'", CapitalSigma}

\* str.isalpha of one character (Unicode category L*).
IsAlpha(c) == c \in {"A", "a", CapitalSigma, SmallSigma, FinalSigma}

\* Unicode property Cased.
IsCased(c) == c \in {"A", "a", CapitalSigma, SmallSigma, FinalSigma}

\* Unicode property Case_Ignorable (the apostrophe is MidNumLet).
IsCaseIgnorable(c) == c \in {"'"}

\* Simple lowercase mapping of one character.
ToLower(c) == IF c = "A" THEN "a" ELSE IF c = CapitalSigma THEN SmallSigma ELSE c

\* Bytes of the UTF-8 encoding of one character.
Utf8Width(c) == IF c \in {CapitalSigma, SmallSigma, FinalSigma} THEN 2 ELSE 1

SetMax(S) == CHOOSE x \in S : \A y \in S : y <= x
SetMin(S) == CHOOSE x \in S : \A y \in S : x <= y

\* str.lower() of the character at position i of text: a capital sigma
\* lowers to the final sigma when it follows a cased character (case-ignorable
\* characters skipped) and is not followed by one, else to the small sigma.
LowerAt(text, i) ==
    IF text[i] # CapitalSigma THEN ToLower(text[i])
    ELSE LET before == {j \in 1..(i - 1) : ~IsCaseIgnorable(text[j])}
             after == {j \in (i + 1)..Len(text) : ~IsCaseIgnorable(text[j])}
             final == /\ before # {}
                      /\ IsCased(text[SetMax(before)])
                      /\ (after = {} \/ ~IsCased(text[SetMin(after)]))
         IN IF final THEN FinalSigma ELSE SmallSigma

\* str.lower() of a whole string.
Lower(text) == [i \in 1..Len(text) |-> LowerAt(text, i)]

RECURSIVE Translate(_)
\* str.translate with the table {'\t': '____'}.
Translate(text) ==
    IF text = <<>> THEN <<>>
    ELSE (IF Head(text) = "\t" THEN [i \in 1..TabWidth |-> "_"] ELSE <<Head(text)>>)
         \o Translate(Tail(text))

\* ProcessTextSanitizer.sanitize
Sanitize(text) == Translate(Lower(text))

\* sanitize_chunk(chunk, sanitizer)
sanitize_chunk(chunk) == Sanitize(chunk)

\* ------------------------------------------------------------- statistics
\* A Counter / dict is a sequence of <<key, count>> pairs in insertion order.
Keys(stats) == {stats[i][1] : i \in 1..Len(stats)}
IndexOf(stats, c) == CHOOSE i \in 1..Len(stats) : stats[i][1] = c
Get(stats, c) == IF c \in Keys(stats) THEN stats[IndexOf(stats, c)][2] ELSE 0

\* The mapping a Counter denotes (dict equality ignores insertion order).
AsMap(stats) == [c \in Keys(stats) |-> Get(stats, c)]

\* Mutant of Add: dict.update semantics, the count is replaced, not added.
AddOverwrite(stats, c, n) ==
    IF c \in Keys(stats)
    THEN [stats EXCEPT ![IndexOf(stats, c)] = <<c, n>>]
    ELSE Append(stats, <<c, n>>)

\* self[key] = self.get(key, 0) + n : a new key is appended.
Add(stats, c, n) ==
    IF c \in Keys(stats)
    THEN [stats EXCEPT ![IndexOf(stats, c)] = <<c, @[2] + n>>]
    ELSE Append(stats, <<c, n>>)

RECURSIVE Merge(_, _)
\* Counter.update(other) with another Counter: adds other's counts, in
\* other's order.
Merge(acc, other) ==
    IF other = <<>> THEN acc
    ELSE Merge(Add(acc, Head(other)[1], Head(other)[2]), Tail(other))

RECURSIVE CounterOf(_)
\* Counter(iterable): counts the elements in order of first occurrence.
CounterOf(chars) ==
    IF chars = <<>> THEN <<>>
    ELSE Add(CounterOf(SubSeq(chars, 1, Len(chars) - 1)), chars[Len(chars)], 1)

\* calculate_statistics_chunk
calculate_statistics_chunk(chunk) == CounterOf(SelectSeq(Lower(chunk), IsAlpha))

\* Mutant of MergeAll: the accumulator is assigned the partial, not updated.
MergeAllAssign(acc, partials) ==
    IF partials = <<>> THEN acc ELSE partials[Len(partials)]

RECURSIVE MergeAll(_, _)
\* The reduction loop over one batch of partials.
MergeAll(acc, partials) ==
    IF partials = <<>> THEN acc
    ELSE MergeAll(Merge(acc, Head(partials)), Tail(partials))

RECURSIVE Total(_)
\* sum(stats.values())
Total(stats) == IF stats = <<>> THEN 0 ELSE Head(stats)[2] + Total(Tail(stats))

RECURSIVE Flatten(_)
\* Concatenation of a sequence of chunks.
Flatten(chunks) == IF chunks = <<>> THEN <<>> ELSE Head(chunks) \o Flatten(Tail(chunks))

\* ---------------------------------------------------------------- sources
\* A byte of a file is <<c, k>>: the k-th byte of the UTF-8 encoding of c.
RECURSIVE Encode(_)
\* The bytes of a text file holding text.
Encode(text) ==
    IF text = <<>> THEN <<>>
    ELSE [k \in 1..Utf8Width(Head(text)) |-> <<Head(text), k>>] \o Encode(Tail(text))

RECURSIVE WellFormed(_)
\* Whether bytes.decode('utf-8') succeeds: every character is whole.
WellFormed(bytes) ==
    \/ bytes = <<>>
    \/ LET c == bytes[1][1]
           w == Utf8Width(c)
       IN /\ Len(bytes) >= w
          /\ \A k \in 1..w : bytes[k] = <<c, k>>
          /\ WellFormed(SubSeq(bytes, w + 1, Len(bytes)))

\* bytes.decode('utf-8') of well-formed bytes: one character per first byte.
Decode(bytes) ==
    LET first == SelectSeq(bytes, LAMBDA b : b[2] = 1)
    IN [i \in 1..Len(first) |-> first[i][1]]

\* What one next() of a read() generator delivers: a chunk, or an exception.
Yield(chunk) == [ok |-> TRUE, chunk |-> chunk]
Raise == [ok |-> FALSE, chunk |-> <<>>]

RECURSIVE UntilRaise(_)
\* A generator ends at the first exception it raises.
UntilRaise(events) ==
    IF events = <<>> THEN <<>>
    ELSE IF ~Head(events).ok THEN <<Raise>>
    ELSE <<Head(events)>> \o UntilRaise(Tail(events))

\* MemoryMappedFileInputReader.read: mmap of an empty file raises ValueError;
\* else one chunk per window of chunk_size bytes, each decoded on its own
\* (a window that cuts a character raises UnicodeDecodeError).
FileRead(bytes, size) ==
    IF Len(bytes) = 0 THEN <<Raise>>
    ELSE LET n == (Len(bytes) + size - 1) \div size
             window(i) == SubSeq(bytes, (i - 1) * size + 1,
                                 IF i * size < Len(bytes) THEN i * size ELSE Len(bytes))
         IN UntilRaise([i \in 1..n |->
                IF WellFormed(window(i)) THEN Yield(Decode(window(i))) ELSE Raise])

RECURSIVE Join(_)
\* ' '.join(map(str, row)) of a row of text columns.
Join(row) ==
    IF row = <<>> THEN <<>>
    ELSE IF Len(row) = 1 THEN row[1]
    ELSE row[1] \o <<" ">> \o Join(Tail(row))

\* DatabaseInputReader.read: connect, execute and fetchall come before the
\* first yield, so a failure of the connection raises before any chunk;
\* else one chunk per fetched row.
DbRead(rows, up) ==
    IF ~up THEN <<Raise>>
    ELSE [i \in 1..Len(rows) |-> Yield(Join(rows[i]))]

\* The chunks a read delivered before it ended or raised.
Chunks(events) ==
    LET oks == SelectSeq(events, LAMBDA e : e.ok)
    IN [i \in 1..Len(oks) |-> oks[i].chunk]

Failed(events) == \E i \in 1..Len(events) : ~events[i].ok

\* --------------------------------------------------------------- the sink
\* The literal header FileOutputWriter.write writes between text and counts.
Header ==
    <<"\n", "C", "o", "u", "n", "t", " ", "o", "f", " ",
      "a", "l", "p", "h", "a", "b", "e", "l", "t", ":", "\n">>

DigitChar(d) == <<"0", "1", "2", "3", "4", "5", "6", "7", "8", "9">>[d + 1]

RECURSIVE Decimal(_)
\* f'{count}' of a non-negative integer.
Decimal(n) ==
    IF n < 10 THEN <<DigitChar(n)>>
    ELSE Decimal(n \div 10) \o <<DigitChar(n % 10)>>

\* f'{char}: {count}\n'
Line(char, count) == <<char, ":", " ">> \o Decimal(count) \o <<"\n">>

RECURSIVE StatLines(_)
\* The loop over statistics.items().
StatLines(stats) ==
    IF stats = <<>> THEN <<>>
    ELSE Line(Head(stats)[1], Head(stats)[2]) \o StatLines(Tail(stats))

\* ------------------------------------------------------------------ state
VARIABLES
    source,      \* "file" or "db": which InputReader the processor was given
    file,        \* the bytes of the input file (external to the program)
    table,       \* the rows the query returns (external to the program)
    chunk_size,  \* MemoryMappedFileInputReader.chunk_size
    touched,     \* whether another writer changed the source during the run
    pc,          \* position of the main thread in process()
    poolState,   \* "RUN" inside the with block, "TERMINATE" after it
    th,          \* position of the pool's task-handler thread
    taskq,       \* tasks handed to the pool and not yet taken by a worker
    running,     \* the task each worker process is executing
    finished,    \* the <<job, index>> of the finished tasks, in completion order
    read1,       \* what the first read() generator delivers, once started
    pos1,        \* how much of it the first imap has pulled
    t1,          \* tasks generated for the first imap (sanitize)
    len1,        \* length of the first imap once known, else -1
    res1,        \* results of the first imap, by task index
    n2,          \* results of the first imap the second imap has pulled
    buf,         \* sanitized chunks of the batch the second imap is filling
    t2,          \* tasks generated for the second imap (statistics)
    len2,        \* length of the second imap once known, else -1
    res2,        \* results of the second imap, by task index
    nMain,       \* results of the second imap the reduction has consumed
    combined,    \* combined_statistics
    read2,       \* what the second read() generator delivers, once started
    started2,    \* whether the second read() generator has been started
    pos2,        \* how much of it write() has consumed
    opened,      \* whether write() has opened (and truncated) the target
    target,      \* the characters of the target file written by this run
    emitted,     \* the sanitized chunks write() took from its iterator
    sinkStats,   \* the statistics dict passed to write()
    text,        \* chunk invariance: the whole text
    chunks,      \* chunk invariance: the text cut into chunks
    merged,      \* chunk invariance: the merged per-chunk statistics
    nMerged,     \* chunk invariance: chunks merged so far
    whole,       \* chunk invariance: the statistics of the whole text
    wholeDone,   \* chunk invariance: whether whole has been computed
    sa, sb, sc,  \* merge laws: three Statistics
    laws         \* merge laws: the merges computed from them

vars ==
    <<source, file, table, chunk_size, touched, pc, poolState, th, taskq, running, finished,
      read1, pos1, t1, len1, res1, n2, buf, t2, len2, res2, nMain, combined,
      read2, started2, pos2, opened, target, emitted, sinkStats,
      text, chunks, merged, nMerged, whole, wholeDone, sa, sb, sc, laws>>

pipeVars ==
    <<source, file, table, chunk_size, touched, pc, poolState, th, taskq, running, finished,
      read1, pos1, t1, len1, res1, n2, buf, t2, len2, res2, nMain, combined,
      read2, started2, pos2, opened, target, emitted, sinkStats>>
splitVars == <<text, chunks, merged, nMerged, whole, wholeDone>>
lawVars == <<sa, sb, sc, laws>>
pureVars == <<splitVars, lawVars>>
envVars == <<source, file, table, chunk_size, touched>>
poolVars == <<poolState, th, taskq, running, finished>>
job1Vars == <<read1, pos1, t1, len1, res1>>
job2Vars == <<n2, buf, t2, len2, res2>>
sinkVars == <<read2, started2, pos2, opened, target, emitted, sinkStats>>

\* ----------------------------------------------------------------- inputs
Repeat(x, n) == [i \in 1..n |-> x]

RECURSIVE SeqsUpTo(_, _)
\* The sequences over S of length at most n.
SeqsUpTo(S, n) ==
    IF n = 0 THEN {<<>>}
    ELSE LET shorter == SeqsUpTo(S, n - 1)
         IN shorter \cup {Append(q, x) : q \in shorter, x \in S}

\* Input files: a character repeated, then a short tail.
Files ==
    {Encode(Repeat(c, n) \o tail) :
        c \in Alphabet, n \in 0..MaxRep, tail \in SeqsUpTo(Alphabet, MaxTail)}

\* Result rows: one or two text columns.
DbRows == {<<<<"A">>>>, <<<<CapitalSigma>>>>, <<<<"A">>, <<CapitalSigma>>>>}

\* Query results: a row repeated, then a short tail.
Tables ==
    {Repeat(r, n) \o tail :
        r \in DbRows, n \in 0..MaxRep, tail \in SeqsUpTo(DbRows, MaxTail)}

\* ------------------------------------------------------------------- pool
Workers == 1..NumWorkers

Task(job, idx, fn, args) == [job |-> job, idx |-> idx, fn |-> fn, args |-> args]
NoTask == Task(0, 0, "none", <<>>)

\* What a worker sends back for a task: mapstar over the batch, or the
\* exception _helper_reraises_exception raises.
Run(task) ==
    IF task.fn = "sanitize"
    THEN [ok |-> TRUE, items |-> [i \in 1..Len(task.args) |-> sanitize_chunk(task.args[i])]]
    ELSE IF task.fn = "stats"
    THEN [ok |-> TRUE,
          items |-> [i \in 1..Len(task.args) |-> calculate_statistics_chunk(task.args[i])]]
    ELSE [ok |-> FALSE, items |-> <<>>]

\* IMapIterator.next(): the result with the next index, once it has arrived.
Ready(res, n) == n \in DOMAIN res

\* read() of the reader the processor holds, on the source as it is now.
Read(up) == IF source = "file" THEN FileRead(file, chunk_size) ELSE DbRead(table, up)

\* The chunk-invariance and merge-law variables at rest.
SplitIdle ==
    /\ text = <<>> /\ chunks = <<>> /\ merged = <<>> /\ nMerged = 0
    /\ whole = <<>> /\ wholeDone = FALSE
LawsIdle == sa = <<>> /\ sb = <<>> /\ sc = <<>> /\ laws = <<>>

Init ==
    /\ SplitIdle /\ LawsIdle
    /\ source \in {"file", "db"}
    /\ file \in (IF source = "file" THEN Files ELSE {<<>>})
    /\ table \in (IF source = "db" THEN Tables ELSE {<<>>})
    /\ chunk_size \in (IF source = "file" THEN 1..MaxChunkSize ELSE {1})
    /\ touched = FALSE
    /\ pc = "reduce"
    /\ poolState = "RUN"
    /\ th = "start"
    /\ taskq = <<>>
    /\ running = [w \in Workers |-> NoTask]
    /\ finished = <<>>
    /\ read1 = <<>> /\ pos1 = 0 /\ t1 = 0 /\ len1 = -1 /\ res1 = <<>>
    /\ n2 = 0 /\ buf = <<>> /\ t2 = 0 /\ len2 = -1 /\ res2 = <<>>
    /\ nMain = 0 /\ combined = <<>>
    /\ read2 = <<>> /\ started2 = FALSE /\ pos2 = 0
    /\ opened = FALSE /\ target = <<>> /\ emitted = <<>> /\ sinkStats = <<>>

\* The task handler starts the first imap's task generation: the first
\* next() of the read() generator runs it up to its first yield.
Gen1Start ==
    /\ poolState = "RUN" /\ th = "start"
    /\ \E up \in BOOLEAN : read1' = Read(up)
    /\ th' = "gen1"
    /\ UNCHANGED <<pureVars, envVars, pc, poolState, taskq, running, finished, pos1, t1, len1, res1,
                   job2Vars, nMain, combined, sinkVars>>

\* One batch of the first imap: islice takes up to chunksize chunks; an
\* exception of the generator discards the batch and becomes a reraise task.
Gen1Step ==
    /\ poolState = "RUN" /\ th = "gen1"
    /\ LET rest == SubSeq(read1, pos1 + 1, Len(read1))
           batch == SubSeq(rest, 1, IF Len(rest) < ImapChunksize THEN Len(rest)
                                    ELSE ImapChunksize)
       IN IF rest = <<>>
          THEN /\ len1' = t1 /\ th' = "gen2"
               /\ UNCHANGED <<taskq, pos1, t1>>
          ELSE IF Failed(batch)
          THEN /\ taskq' = Append(taskq, Task(1, t1, "reraise", <<>>))
               /\ pos1' = Len(read1) /\ t1' = t1 + 1 /\ len1' = t1 + 1
               /\ th' = "gen2"
          ELSE /\ taskq' = Append(taskq, Task(1, t1, "sanitize", Chunks(batch)))
               /\ pos1' = pos1 + Len(batch) /\ t1' = t1 + 1
               /\ UNCHANGED <<len1, th>>
    /\ UNCHANGED <<pureVars, envVars, pc, poolState, running, finished, read1, res1, job2Vars,
                   nMain, combined, sinkVars>>

\* One step of the second imap's task generation, which iterates the first
\* imap's results in order and batches them again.
Gen2Step ==
    /\ poolState = "RUN" /\ th = "gen2"
    /\ IF n2 = len1
       THEN /\ IF buf # <<>>
               THEN /\ taskq' = Append(taskq, Task(2, t2, "stats", buf))
                    /\ t2' = t2 + 1 /\ len2' = t2 + 1
               ELSE /\ len2' = t2 /\ UNCHANGED <<taskq, t2>>
            /\ buf' = <<>> /\ th' = "idle"
            /\ UNCHANGED n2
       ELSE /\ Ready(res1, n2)
            /\ IF ~res1[n2].ok
               THEN /\ taskq' = Append(taskq, Task(2, t2, "reraise", <<>>))
                    /\ t2' = t2 + 1 /\ len2' = t2 + 1
                    /\ buf' = <<>> /\ th' = "idle"
               ELSE LET all == buf \o res1[n2].items
                    IN IF Len(all) >= ImapChunksize
                       THEN /\ taskq' = Append(taskq,
                                   Task(2, t2, "stats", SubSeq(all, 1, ImapChunksize)))
                            /\ buf' = SubSeq(all, ImapChunksize + 1, Len(all))
                            /\ t2' = t2 + 1
                            /\ UNCHANGED <<len2, th>>
                       ELSE /\ buf' = all
                            /\ UNCHANGED <<taskq, t2, len2, th>>
            /\ n2' = n2 + 1
    /\ UNCHANGED <<pureVars, envVars, pc, poolState, running, finished, job1Vars, res2,
                   nMain, combined, sinkVars>>

\* An idle worker takes the oldest task.
WorkerTake(w) ==
    /\ poolState = "RUN" /\ running[w] = NoTask /\ taskq # <<>>
    /\ running' = [running EXCEPT ![w] = Head(taskq)]
    /\ taskq' = Tail(taskq)
    /\ UNCHANGED <<pureVars, envVars, pc, poolState, th, finished, job1Vars, job2Vars,
                   nMain, combined, sinkVars>>

\* A worker finishes its task; the result handler files the result.
WorkerFinish(w) ==
    /\ poolState = "RUN" /\ running[w] # NoTask
    /\ LET task == running[w]
       IN /\ IF task.job = 1
             THEN res1' = (task.idx :> Run(task)) @@ res1 /\ UNCHANGED res2
             ELSE res2' = (task.idx :> Run(task)) @@ res2 /\ UNCHANGED res1
    /\ running' = [running EXCEPT ![w] = NoTask]
    /\ finished' = Append(finished, <<running[w].job, running[w].idx>>)
    /\ UNCHANGED <<pureVars, envVars, pc, poolState, th, taskq, read1, pos1, t1, len1,
                   n2, buf, t2, len2, nMain, combined, sinkVars>>

\* Pool.__exit__: terminate() stops the handler threads and the workers.
Terminate ==
    /\ poolState' = "TERMINATE"
    /\ th' = "stopped"
    /\ taskq' = <<>>
    /\ running' = [w \in Workers |-> NoTask]
    /\ UNCHANGED finished

\* for stat_chunk in statistics_chunks: combined_statistics.update(stat_chunk)
\* for the partials of the next batch.
MainMerge ==
    /\ pc = "reduce" /\ Ready(res2, nMain) /\ res2[nMain].ok
    /\ combined' = MergeAll(combined, res2[nMain].items)
    /\ nMain' = nMain + 1
    /\ UNCHANGED <<pureVars, envVars, pc, poolVars, job1Vars, job2Vars, sinkVars>>

\* Mutant of MainRaise: an exception is raised as soon as any result holds
\* one, without waiting for the results before it.
MainRaiseEarly ==
    /\ pc = "reduce" /\ \E i \in DOMAIN res2 : ~res2[i].ok
    /\ pc' = "aborted"
    /\ Terminate
    /\ UNCHANGED <<pureVars, envVars, job1Vars, job2Vars, nMain, combined, sinkVars>>

\* The next result is an exception: it propagates out of the with block.
MainRaise ==
    /\ pc = "reduce" /\ Ready(res2, nMain) /\ ~res2[nMain].ok
    /\ pc' = "aborted"
    /\ Terminate
    /\ UNCHANGED <<pureVars, envVars, job1Vars, job2Vars, nMain, combined, sinkVars>>

\* The iterator is exhausted: the loop and the with block end.
MainExitPool ==
    /\ pc = "reduce" /\ len2 >= 0 /\ nMain = len2
    /\ pc' = "write"
    /\ Terminate
    /\ UNCHANGED <<pureVars, envVars, job1Vars, job2Vars, nMain, combined, sinkVars>>

\* Another writer changes the source between the two reads.
EnvWrite ==
    /\ pc = "write" /\ ~touched
    /\ touched' = TRUE
    /\ IF source = "file"
       THEN /\ \/ \E c \in Alphabet : file' = file \o Encode(<<c>>)
               \/ file' = <<>>
            /\ UNCHANGED table
       ELSE /\ \/ \E r \in DbRows : table' = Append(table, r)
               \/ table' = <<>>
            /\ UNCHANGED file
    /\ UNCHANGED <<pureVars, source, chunk_size, pc, poolVars, job1Vars, job2Vars,
                   nMain, combined, sinkVars>>

\* write(sanitized_iterator, dict(combined_statistics)): open(target, 'w').
WriteOpen ==
    /\ pc = "write"
    /\ pc' = "write_loop"
    /\ opened' = TRUE /\ target' = <<>>
    /\ sinkStats' = combined
    /\ UNCHANGED <<pureVars, envVars, poolVars, job1Vars, job2Vars, nMain, combined,
                   read2, started2, pos2, emitted>>

\* The first next() of the output iterator starts the second read().
WriteStartRead ==
    /\ pc = "write_loop" /\ ~started2
    /\ started2' = TRUE
    /\ \E up \in BOOLEAN : read2' = Read(up)
    /\ UNCHANGED <<pureVars, envVars, pc, poolVars, job1Vars, job2Vars, nMain, combined,
                   pos2, opened, target, emitted, sinkStats>>

\* Mutant of WriteChunk: the chunk is written as read, not sanitized.
WriteChunkRaw ==
    /\ pc = "write_loop" /\ started2 /\ pos2 < Len(read2) /\ read2[pos2 + 1].ok
    /\ LET chunk == read2[pos2 + 1].chunk
       IN /\ target' = target \o chunk
          /\ emitted' = Append(emitted, chunk)
    /\ pos2' = pos2 + 1
    /\ UNCHANGED <<pureVars, envVars, pc, poolVars, job1Vars, job2Vars, nMain, combined,
                   read2, started2, opened, sinkStats>>

\* for chunk in sanitized_text: file.write(chunk)
WriteChunk ==
    /\ pc = "write_loop" /\ started2 /\ pos2 < Len(read2) /\ read2[pos2 + 1].ok
    /\ LET chunk == Sanitize(read2[pos2 + 1].chunk)
       IN /\ target' = target \o chunk
          /\ emitted' = Append(emitted, chunk)
    /\ pos2' = pos2 + 1
    /\ UNCHANGED <<pureVars, envVars, pc, poolVars, job1Vars, job2Vars, nMain, combined,
                   read2, started2, opened, sinkStats>>

\* The second read raises: the exception leaves write() and process().
WriteFail ==
    /\ pc = "write_loop" /\ started2 /\ pos2 < Len(read2) /\ ~read2[pos2 + 1].ok
    /\ pc' = "aborted"
    /\ pos2' = pos2 + 1
    /\ UNCHANGED <<pureVars, envVars, poolVars, job1Vars, job2Vars, nMain, combined,
                   read2, started2, opened, target, emitted, sinkStats>>

\* The text is exhausted: the header and one line per counted character.
WriteStats ==
    /\ pc = "write_loop" /\ started2 /\ pos2 = Len(read2)
    /\ target' = target \o Header \o StatLines(sinkStats)
    /\ pc' = "done"
    /\ UNCHANGED <<pureVars, envVars, poolVars, job1Vars, job2Vars, nMain, combined,
                   read2, started2, pos2, opened, emitted, sinkStats>>

Next ==
    \/ Gen1Start
    \/ Gen1Step
    \/ Gen2Step
    \/ \E w \in Workers : WorkerTake(w)
    \/ \E w \in Workers : WorkerFinish(w)
    \/ MainMerge
    \/ MainRaise
    \/ MainExitPool
    \/ EnvWrite
    \/ WriteOpen
    \/ WriteStartRead
    \/ WriteChunk
    \/ WriteFail
    \/ WriteStats

Spec == Init /\ [][Next]_vars

\* ------------------------------------------------------ chunk invariance
\* The pipeline variables at rest.
PipeIdle ==
    /\ source = "file" /\ file = <<>> /\ table = <<>> /\ chunk_size = 1
    /\ touched = FALSE /\ pc = "idle" /\ poolState = "TERMINATE" /\ th = "stopped"
    /\ taskq = <<>> /\ running = [w \in Workers |-> NoTask] /\ finished = <<>>
    /\ read1 = <<>> /\ pos1 = 0 /\ t1 = 0 /\ len1 = -1 /\ res1 = <<>>
    /\ n2 = 0 /\ buf = <<>> /\ t2 = 0 /\ len2 = -1 /\ res2 = <<>>
    /\ nMain = 0 /\ combined = <<>>
    /\ read2 = <<>> /\ started2 = FALSE /\ pos2 = 0
    /\ opened = FALSE /\ target = <<>> /\ emitted = <<>> /\ sinkStats = <<>>

\* The nondecreasing sequences of at most MaxCuts cut positions in 0..n.
CutsOf(n) ==
    {c \in SeqsUpTo(0..n, MaxCuts) : \A i \in 1..(Len(c) - 1) : c[i] <= c[i + 1]}

\* t cut at the positions c: Len(c) + 1 chunks, empty ones included.
Split(t, c) ==
    [i \in 1..(Len(c) + 1) |->
        SubSeq(t, (IF i = 1 THEN 0 ELSE c[i - 1]) + 1,
                  IF i = Len(c) + 1 THEN Len(t) ELSE c[i])]

InitSplit ==
    /\ PipeIdle /\ LawsIdle
    /\ text \in SeqsUpTo(PureAlphabet, MaxLen)
    /\ \E c \in CutsOf(Len(text)) : chunks = Split(text, c)
    /\ merged = <<>> /\ nMerged = 0 /\ whole = <<>> /\ wholeDone = FALSE

\* The worker's and the reduction's work on the next chunk:
\* combined.update(calculate_statistics_chunk(sanitize_chunk(chunk))).
MergeChunk ==
    /\ nMerged < Len(chunks)
    /\ merged' = Merge(merged, calculate_statistics_chunk(sanitize_chunk(chunks[nMerged + 1])))
    /\ nMerged' = nMerged + 1
    /\ UNCHANGED <<pipeVars, lawVars, text, chunks, whole, wholeDone>>

\* The same count on the whole text as one chunk.
CountWhole ==
    /\ ~wholeDone
    /\ whole' = calculate_statistics_chunk(sanitize_chunk(text))
    /\ wholeDone' = TRUE
    /\ UNCHANGED <<pipeVars, lawVars, text, chunks, merged, nMerged>>

NextSplit ==
    \/ MergeChunk
    \/ CountWhole

SpecSplit == InitSplit /\ [][NextSplit]_vars

\* -------------------------------------------------------------- merge laws
StatKeys == {"a", SmallSigma}

\* The Counters over StatKeys with counts 1..MaxCount, in every insertion order.
StatsSet ==
    {s \in SeqsUpTo(StatKeys \X (1..MaxCount), Cardinality(StatKeys)) :
        \A i, j \in 1..Len(s) : i # j => s[i][1] # s[j][1]}

InitLaws ==
    /\ PipeIdle /\ SplitIdle
    /\ sa \in StatsSet /\ sb \in StatsSet /\ sc \in StatsSet
    /\ laws = <<>>

\* The merges the laws compare, each as the reduction computes it.
ApplyMerges ==
    /\ laws = <<>>
    /\ laws' = [ab |-> Merge(sa, sb), ba |-> Merge(sb, sa),
                a_bc |-> Merge(sa, Merge(sb, sc)), ab_c |-> Merge(Merge(sa, sb), sc),
                a_e |-> Merge(sa, <<>>)]
    /\ UNCHANGED <<pipeVars, splitVars, sa, sb, sc>>

NextLaws == ApplyMerges

SpecLaws == InitLaws /\ [][NextLaws]_vars

\* ================================================================= claims
AllAlpha == {"a", SmallSigma, FinalSigma}

RECURSIVE SumOf(_, _)
\* The count of character k summed over the Statistics in partials.
SumOf(partials, k) ==
    IF partials = <<>> THEN 0 ELSE Get(Head(partials), k) + SumOf(Tail(partials), k)

\* A later batch's partial was finished before an earlier batch's.
OutOfOrder ==
    \E i, j \in 1..Len(finished) :
        i < j /\ finished[i][1] = 2 /\ finished[j][1] = 2 /\ finished[i][2] > finished[j][2]

\* C1: whatever the order in which the workers finish, the Statistics that
\* process() passes to the sink (checked at the call of write) is the elementwise sum of calculate_statistics_chunk(sanitize(c))
\* over all chunks c the statistics pass read: every partial merged exactly once.
C1_StatisticsAreTheSum ==
    (pc = "write_loop" /\ ~started2) =>
        LET cs == Chunks(read1)
            partials == [i \in 1..Len(cs) |-> calculate_statistics_chunk(Sanitize(cs[i]))]
        IN /\ Keys(sinkStats) \subseteq AllAlpha
           /\ \A k \in AllAlpha : Get(sinkStats, k) = SumOf(partials, k)
           /\ \A k \in Keys(sinkStats) : Get(sinkStats, k) > 0

C1_Witness ==
    /\ pc = "write_loop" /\ ~started2 /\ OutOfOrder
    /\ Len(Chunks(read1)) > ImapChunksize
    /\ Cardinality(Keys(sinkStats)) >= 2

\* C2: the normalized text handed to the sink and written to the target is
\* sanitize(c1), ..., sanitize(cn) for the chunks c1..cn the source delivers to
\* the output pass, in that order, none missing, repeated or reordered.
C2_OutputInSourceOrder ==
    LET cs == Chunks(read2)
        flat == Flatten(emitted)
    IN /\ Len(emitted) <= Len(cs)
       /\ emitted = [i \in 1..Len(emitted) |-> Sanitize(cs[i])]
       /\ SubSeq(target, 1, Len(flat)) = flat
       /\ pc = "done" => Len(emitted) = Len(cs) /\ ~Failed(read2)

C2_Witness ==
    /\ pc = "done" /\ OutOfOrder
    /\ Len(emitted) > ImapChunksize
    /\ \E i, j \in 1..Len(emitted) : emitted[i] # emitted[j]

\* C3 (as claimed): a run that aborts has written no output to the target.
C3_NoPartialOutput == pc = "aborted" => target = <<>>

\* C4 (as claimed): in a completed run the values of the Statistics sum to
\* the number of alphabetic characters of the sanitized text given to the sink.
C4_Conservation ==
    pc = "done" => Total(sinkStats) = Len(SelectSeq(Flatten(emitted), IsAlpha))

\* C5 (as claimed): the two read() calls of a run deliver the same chunk
\* sequence to the statistics pass and to the output pass.
C5_ReadRepeatable == pc = "done" => Chunks(read2) = Chunks(read1)

\* The pool holds no work: nothing queued, nothing running, no task still to
\* be generated, no result the reduction has not been given.
Drained ==
    /\ taskq = <<>>
    /\ \A w \in Workers : running[w] = NoTask
    /\ th = "idle"
    /\ \A i \in DOMAIN res2 : i < nMain \/ (i = nMain /\ ~res2[i].ok)
    /\ \A i \in DOMAIN res1 : i < n2

PoolIsDown ==
    /\ poolState = "TERMINATE" /\ th = "stopped"
    /\ taskq = <<>> /\ \A w \in Workers : running[w] = NoTask

\* C6: when control leaves the with block, by the end of the loop or by an
\* exception, the pool is drained, and it is shut down from then on: no worker
\* runs while the output pass writes.
C6_PoolScoped ==
    /\ [](pc # "reduce" => PoolIsDown)
    /\ [][(pc = "reduce" /\ pc' # "reduce") => Drained]_vars

C6_Witness == pc = "aborted" /\ ~opened /\ nMain >= 1 /\ Len(finished) >= 4

\* The source has nothing to deliver: a file of zero length, or a query that
\* ran and returned zero rows.
EmptySource ==
    /\ ~touched
    /\ IF source = "file" THEN Len(file) = 0
       ELSE Len(table) = 0 /\ ~Failed(read1) /\ ~Failed(read2)

\* C7 (as claimed): on an empty source the run raises no error and gives the
\* sink an empty text and an empty Statistics.
C7_EmptyInputLaw ==
    EmptySource =>
        /\ pc # "aborted"
        /\ pc = "done" => emitted = <<>> /\ sinkStats = <<>>

\* C8 (as claimed): merging the per-chunk statistics of any split of a text
\* gives the statistics of the whole text.
C8_ChunkInvariance ==
    (nMerged = Len(chunks) /\ wholeDone) => AsMap(merged) = AsMap(whole)

\* The header the documented output format names.
DocumentedHeader ==
    <<"\n", "C", "o", "u", "n", "t", " ", "o", "f", " ",
      "a", "l", "p", "h", "a", "b", "e", "t", ":", "\n">>

\* C9 (as claimed): the target holds the normalized chunks, then the literal
\* "\nCount of alphabet:\n", then one "{char}: {count}\n" line per character in
\* order of first occurrence, and nothing else.
C9_OutputFormat ==
    pc = "done" => target = Flatten(emitted) \o DocumentedHeader \o StatLines(sinkStats)

\* C10: merge is the elementwise sum, associative and commutative, with the
\* empty mapping as identity (equality of the character-to-count mappings).
C10_MergeLaws ==
    laws # <<>> =>
        /\ AsMap(laws.ab) = AsMap(laws.ba)
        /\ AsMap(laws.a_bc) = AsMap(laws.ab_c)
        /\ AsMap(laws.a_e) = AsMap(sa)
        /\ \A k \in StatKeys : Get(laws.ab, k) = Get(sa, k) + Get(sb, k)

C10_Witness ==
    /\ laws # <<>>
    /\ Keys(sa) \cap Keys(sb) # {} /\ Keys(sb) \ Keys(sa) # {} /\ sc # <<>>
    /\ laws.ab # laws.ba

====
